---- MODULE Spec2Model ----
(***************************************************************************)
(* A model of csvpb (src/csvpb.go): ListWriter.Write flattens a            *)
(* structpb.ListValue into columns and hands a header row and the data     *)
(* rows to a Writer.                                                       *)
(*                                                                         *)
(* Go strings are sequences of one-character strings, so that their        *)
(* length, their concatenation and their byte order are computed.          *)
(* A structpb.Struct is a function from field names to values: the order   *)
(* in which Go ranges over a map is not fixed, so every operation that     *)
(* ranges over a map yields the SET of the results of all iteration orders.*)
(***************************************************************************)
EXTENDS Integers, Sequences, FiniteSets, TLC

Max(a, b) == IF a >= b THEN a ELSE b
Min(a, b) == IF a <= b THEN a ELSE b

----------------------------------------------------------------------------
(* Strings, byte order and fmt's verbs                                     *)

\* The characters the model uses, in increasing byte value.
AsciiOrder ==
    <<",", "-", ".", "0", "1", "2", "3", "4", "5", "6", "7", "8", "9",
      "[", "]", "a", "b", "c", "e", "f", "k", "l", "r", "s", "t", "u", "x", "y", "z">>

Code(c) == CHOOSE n \in 1..Len(AsciiOrder) : AsciiOrder[n] = c

\* Go's s < t on strings: bytewise lexicographic order.
StrLess(s, t) ==
    \/ /\ Len(s) < Len(t)
       /\ \A n \in 1..Len(s) : s[n] = t[n]
    \/ \E k \in 1..Min(Len(s), Len(t)) :
          /\ \A n \in 1..(k - 1) : s[n] = t[n]
          /\ Code(s[k]) < Code(t[k])

Digits == <<"0", "1", "2", "3", "4", "5", "6", "7", "8", "9">>

RECURSIVE FormatUint(_)
FormatUint(n) ==
    IF n < 10 THEN <<Digits[n + 1]>>
    ELSE FormatUint(n \div 10) \o <<Digits[(n % 10) + 1]>>

Pow10(k) == IF k = 0 THEN 1 ELSE IF k = 1 THEN 10 ELSE IF k = 2 THEN 100
            ELSE IF k = 3 THEN 1000 ELSE IF k = 4 THEN 10000 ELSE 100000

\* fmt.Sprintf("%f", x): sign, integer part, a dot and six decimals.  A number
\* x is held as the integer x * 10^6 (its value to six decimals).
FormatFloat(micro) ==
    LET abs == IF micro < 0 THEN 0 - micro ELSE micro
        int == abs \div 1000000
        frac == abs % 1000000
    IN  (IF micro < 0 THEN <<"-">> ELSE <<>>)
        \o FormatUint(int) \o <<".">>
        \o [k \in 1..6 |-> Digits[((frac \div Pow10(6 - k)) % 10) + 1]]

\* fmt.Sprintf("%t", b)
FormatBool(b) == IF b THEN <<"t", "r", "u", "e">> ELSE <<"f", "a", "l", "s", "e">>

\* fmt.Sprintf("%s.%s", key, header)
JoinDot(key, header) == key \o <<".">> \o header

----------------------------------------------------------------------------
(* structpb values                                                         *)

NullValue == [kind |-> "NullValue"]
NumberValue(micro) == [kind |-> "NumberValue", num |-> micro]
StringValue(s) == [kind |-> "StringValue", str |-> s]
BoolValue(b) == [kind |-> "BoolValue", bool |-> b]
\* fields: a function from field names to values
StructValue(fields) == [kind |-> "StructValue", fields |-> fields]
\* values: a sequence of values
ListValue(values) == [kind |-> "ListValue", values |-> values]
\* a structpb.Value whose Kind is not set
UnsetValue == [kind |-> "nil"]

ScalarKinds == {"NullValue", "NumberValue", "StringValue", "BoolValue"}

IsScalar(v) == v.kind \in ScalarKinds

\* The text of a scalar, as addChildValue, addValue and addList write it.
Stringify(v) ==
    CASE v.kind = "NullValue" -> <<>>
      [] v.kind = "NumberValue" -> FormatFloat(v.num)
      [] v.kind = "StringValue" -> v.str
      [] v.kind = "BoolValue" -> FormatBool(v.bool)

\* All the orders in which a range over a map with key set S may run.
Perms(S) ==
    {p \in [1..Cardinality(S) -> S] :
        \A a, b \in 1..Cardinality(S) : a # b => p[a] # p[b]}

----------------------------------------------------------------------------
(* The row estimate                                                        *)

RECURSIVE rowBufferForStruct(_)
RECURSIVE rowBufferForList(_)
RECURSIVE SumStructFields(_, _)
RECURSIVE SumListValues(_, _)

\* The loop of rowBufferForStruct over the fields named in names.
SumStructFields(fields, names) ==
    IF names = {} THEN 0
    ELSE LET n == CHOOSE x \in names : TRUE
             value == fields[n]
         IN  (IF value.kind = "ListValue" THEN rowBufferForList(value.values) ELSE 0)
             + SumStructFields(fields, names \ {n})

\* The loop of rowBufferForList over the values from index k on.
SumListValues(values, k) ==
    IF k > Len(values) THEN 0
    ELSE (IF values[k].kind = "StructValue"
            THEN rowBufferForStruct(values[k].fields) ELSE 0)
         + SumListValues(values, k + 1)

\* rowBufferForStruct without its floor of one row.
rowBufferForStruct_NoFloor(fields) == SumStructFields(fields, DOMAIN fields)

rowBufferForStruct(fields) == Max(SumStructFields(fields, DOMAIN fields), 1)

rowBufferForList(values) == SumListValues(values, 1)

----------------------------------------------------------------------------
(* column and columns                                                      *)

\* A *column is the header under which the columns' map holds it; parent is
\* <<>> for nil and <<h>> for the column with header h.
NilColumn == <<>>

NoColumns == [h \in {} |-> 0]

\* How a call ended: "nil", "ErrUnsupportedValueType" or "panic" (an index out
\* of range).  Nothing runs after an error or a panic.
newColumns(buf) ==
    [m |-> NoColumns, buf |-> buf, currentColNum |-> 0, err |-> "nil"]

RECURSIVE root(_, _)
root(m, h) == IF m[h].parent = NilColumn THEN h ELSE root(m, m[h].parent[1])

currentRowNum(m, h) == m[root(m, h)].rowNum

updateRowNum(cols, h) ==
    LET r == root(cols.m, h)
    IN  [cols EXCEPT !.m[r].rowNum = @ + 1]

\* addChildColumn that takes the next order slot at registration.
addChildColumn_TakesSlot(cols, parent, header) ==
    IF header \in DOMAIN cols.m THEN cols
    ELSE [cols EXCEPT !.m = cols.m @@ (header :>
                         [parent |-> parent, header |-> header,
                          order |-> cols.currentColNum,
                          data |-> <<>>, rowNum |-> 0]),
                      !.currentColNum = @ + 1]

addChildColumn(cols, parent, header) ==
    IF header \in DOMAIN cols.m THEN cols
    ELSE [cols EXCEPT !.m = cols.m @@ (header :>
            [parent |-> parent, header |-> header, order |-> 0,
             data |-> <<>>, rowNum |-> 0])]

addColumn(cols, header) == addChildColumn(cols, NilColumn, header)

RECURSIVE EmptyCells(_)
\* make([]string, cols.buf): buf empty strings
EmptyCells(n) == IF n = 0 THEN <<>> ELSE Append(EmptyCells(n - 1), <<>>)

addChildData(cols, parent, key, data) ==
    IF cols.err # "nil" THEN cols
    ELSE
    LET c1 == addChildColumn(cols, parent, key)
        c2 == IF Len(c1.m[key].data) = 0
                THEN [c1 EXCEPT !.m[key].data = EmptyCells(c1.buf),
                                !.m[key].order = c1.currentColNum,
                                !.currentColNum = @ + 1]
                ELSE c1
        row == currentRowNum(c2.m, key)
    IN  IF row >= Len(c2.m[key].data)
          THEN [c2 EXCEPT !.err = "panic"]
          ELSE [c2 EXCEPT !.m[key].data[row + 1] = data]

addData(cols, key, data) == addChildData(cols, NilColumn, key, data)

\* trimParents that deletes nothing.
trimParents_KeepAll(cols) == cols

trimParents(cols) ==
    [cols EXCEPT !.m =
        [h \in {g \in DOMAIN cols.m : Len(cols.m[g].data) # 0} |-> cols.m[h]]]

\* reorderAlphabetically with the comparison of its sort reversed.
reorderAlphabetically_Reversed(cols) ==
    [cols EXCEPT !.m =
        [h \in DOMAIN cols.m |-> [cols.m[h] EXCEPT
            !.order = Cardinality({g \in DOMAIN cols.m : StrLess(h, g)})]]]

\* The columns are put in a slice at their order, the slice is sorted by
\* header and each column takes its index as its order.
reorderAlphabetically(cols) ==
    LET hs == DOMAIN cols.m
        n == Cardinality(hs)
    IN  IF \/ \E h \in hs : cols.m[h].order >= n
           \/ \E k \in 0..(n - 1) : \A h \in hs : cols.m[h].order # k
          THEN [cols EXCEPT !.err = "panic"]
          ELSE [cols EXCEPT !.m =
                  [h \in hs |-> [cols.m[h] EXCEPT
                      !.order = Cardinality({g \in hs : StrLess(g, h)})]]]

----------------------------------------------------------------------------
(* The flattening: each operator yields the set of the columns that the    *)
(* iteration orders of the maps it ranges over can leave behind            *)

minBufLen == 3

RECURSIVE addStruct(_, _, _)
RECURSIVE addList(_, _, _)
RECURSIVE addChildValue(_, _, _, _)
RECURSIVE RangeFields(_, _, _, _, _)
RECURSIVE RangeValues(_, _, _, _)
RECURSIVE CopySubColumns(_, _, _, _, _)

\* cols.m[key] as a *column: nil when the map has no such key.
Lookup(cols, key) == IF key \in DOMAIN cols.m THEN <<key>> ELSE NilColumn

\* addStruct's loop over obj.GetFields(), in the order ord from its k-th
\* name on, run from each of the columns in F; an error ends the loop.
RangeFields(F, key, fields, ord, k) ==
    IF k > Len(ord) THEN F
    ELSE RangeFields(
           UNION {IF f.err # "nil" THEN {f}
                  ELSE addChildValue(f, Lookup(f, key), ord[k], fields[ord[k]]) :
                  f \in F},
           key, fields, ord, k + 1)

\* addStruct's loop over focus.m, in the order ord (the headers of the
\* sub-columns that have data) from its k-th header on.
CopySubColumns(cols, key, focus, ord, k) ==
    IF k > Len(ord) THEN cols
    ELSE CopySubColumns(
           addChildData(cols, Lookup(cols, key), JoinDot(key, ord[k]),
                        focus.m[ord[k]].data[1]),
           key, focus, ord, k + 1)

addStruct(cols, key, fields) ==
    LET c1 == addColumn(cols, key)
        nested == key # <<>>
        start == IF nested THEN newColumns(rowBufferForStruct(fields)) ELSE c1
        focuses == UNION {RangeFields({start}, key, fields, ord, 1) :
                          ord \in Perms(DOMAIN fields)}
        Advance(c) == IF c.err = "nil" /\ key \in DOMAIN c.m
                        THEN updateRowNum(c, key) ELSE c
        Finish(focus) ==
            IF focus.err # "nil"
              THEN {IF nested THEN [c1 EXCEPT !.err = focus.err] ELSE focus}
            ELSE IF nested
              THEN {Advance(CopySubColumns(c1, key, focus, ord, 1)) :
                    ord \in Perms({h \in DOMAIN focus.m : Len(focus.m[h].data) # 0})}
            ELSE {Advance(focus)}
    IN  UNION {Finish(focus) : focus \in focuses}

\* addList's loop from the k-th value on, run from each pair in P of the
\* columns and the strings.Builder's content.
RangeValues(P, key, values, k) ==
    IF k > Len(values) THEN P
    ELSE
    LET value == values[k]
        sep == IF k # Len(values) THEN <<",">> ELSE <<>>
        Step(p) ==
            IF p.cols.err # "nil" THEN {p}
            ELSE IF IsScalar(value)
              THEN {[p EXCEPT !.buf = @ \o Stringify(value) \o sep]}
            ELSE IF value.kind = "StructValue"
              THEN {[p EXCEPT !.cols = c] : c \in addStruct(p.cols, key, value.fields)}
            ELSE {[p EXCEPT !.cols.err = "ErrUnsupportedValueType"]}
    IN  RangeValues(UNION {Step(p) : p \in P}, key, values, k + 1)

addList(cols, key, values) ==
    {IF p.cols.err # "nil" THEN p.cols
     ELSE IF Len(p.buf \o <<"]">>) >= minBufLen
       THEN addData(p.cols, key, p.buf \o <<"]">>)
     ELSE p.cols :
     p \in RangeValues({[cols |-> cols, buf |-> <<"[">>]}, key, values, 1)}

addChildValue(cols, parent, key, value) ==
    IF IsScalar(value) THEN {addChildData(cols, parent, key, Stringify(value))}
    ELSE IF value.kind = "StructValue" THEN addStruct(cols, key, value.fields)
    ELSE IF value.kind = "ListValue" THEN addList(cols, key, value.values)
    ELSE {[cols EXCEPT !.err = "ErrUnsupportedValueType"]}

addValue(cols, key, value) ==
    IF IsScalar(value) THEN {addData(cols, key, Stringify(value))}
    ELSE IF value.kind = "StructValue" THEN addStruct(cols, key, value.fields)
    ELSE IF value.kind = "ListValue" THEN addList(cols, key, value.values)
    ELSE {[cols EXCEPT !.err = "ErrUnsupportedValueType"]}

----------------------------------------------------------------------------
(* The rows handed to the Writer                                           *)

\* The rows that "row := make([]string, len(m)); for each column:
\* row[column.order] = cell[column]" can build: a slot no column has is "",
\* a slot two columns share holds the cell of either.  {} when an order is out
\* of range (a panic).
RowsOf(m, cell) ==
    LET hs == DOMAIN m
        n == Cardinality(hs)
        At(j) == {h \in hs : m[h].order = j - 1}
        cells == {cell[h] : h \in hs} \cup {<<>>}
    IN  IF \E h \in hs : m[h].order >= n THEN {}
        ELSE {row \in [1..n -> cells] :
                \A j \in 1..n : IF At(j) = {} THEN row[j] = <<>>
                                ELSE \E h \in At(j) : row[j] = cell[h]}

HeaderRows(m) == RowsOf(m, [h \in DOMAIN m |-> m[h].header])

DataRows(m, i) == RowsOf(m, [h \in DOMAIN m |-> m[h].data[i + 1]])

----------------------------------------------------------------------------
(* The inputs                                                              *)

\* The inputs are all the lists of records with at most MaxWeight nodes
\* (values, each counted once), and a few families of larger ones.
MaxWeight == 5

a == <<"a">>
b == <<"b">>
k == <<"k">>
x == <<"x">>

Names == {a, b}

NoFields == [n \in {} |-> 0]

RECURSIVE ValuesOfWeight(_)
RECURSIVE SeqsOfWeight(_)
RECURSIVE FieldsOver(_, _)

\* The values with w nodes.
ValuesOfWeight(w) ==
    (IF w = 1 THEN {StringValue(x), UnsetValue} ELSE {})
    \cup {StructValue(f) : f \in UNION {FieldsOver(S, w - 1) : S \in SUBSET Names}}
    \cup {ListValue(s) : s \in SeqsOfWeight(w - 1)}

\* The sequences of values with t nodes in all.
SeqsOfWeight(t) ==
    IF t = 0 THEN {<<>>}
    ELSE UNION {{<<v>> \o s : v \in ValuesOfWeight(j), s \in SeqsOfWeight(t - j)} :
                j \in 1..t}

\* The fields with exactly the names S and t nodes in all.
FieldsOver(S, t) ==
    IF S = {} THEN (IF t = 0 THEN {NoFields} ELSE {})
    ELSE LET n == CHOOSE m \in S : TRUE
         IN  UNION {{(n :> v) @@ f : v \in ValuesOfWeight(j), f \in FieldsOver(S \ {n}, t - j)} :
                    j \in 1..t}

RECURSIVE RecordSeqsOfWeight(_)
RecordSeqsOfWeight(t) ==
    IF t = 0 THEN {<<>>}
    ELSE UNION {{<<v>> \o s : v \in {r \in ValuesOfWeight(j) : r.kind = "StructValue"},
                              s \in RecordSeqsOfWeight(t - j)} :
                j \in 1..t}

\* Every string of the input tells where it stands: it is replaced by the
\* indices, one digit each, of the list elements on the way to it.
RECURSIVE Stamp(_, _)
Stamp(v, path) ==
    IF v.kind = "StringValue" THEN StringValue(path)
    ELSE IF v.kind = "StructValue"
      THEN StructValue([n \in DOMAIN v.fields |-> Stamp(v.fields[n], path)])
    ELSE IF v.kind = "ListValue"
      THEN ListValue([j \in 1..Len(v.values) |->
                        Stamp(v.values[j], path \o <<Digits[j + 1]>>)])
    ELSE v

StampList(values) == [j \in 1..Len(values) |-> Stamp(values[j], <<Digits[j + 1]>>)]

RecordInputs == {StampList(l) : l \in UNION {RecordSeqsOfWeight(t) : t \in 0..MaxWeight}}

\* One record whose field k holds a list of at most MaxElems elements, of
\* every scalar kind and records, alone or followed by a second record.
MaxElems == 3

Element(j) ==
    {NullValue, NumberValue(1500000), StringValue(x), StringValue(<<>>),
     BoolValue(TRUE), BoolValue(FALSE), StructValue(a :> StringValue(<<Digits[j + 1]>>))}

ElementSeqs ==
    UNION {{s \in [1..n -> UNION {Element(j) : j \in 1..n}] :
              \A j \in 1..n : s[j] \in Element(j)} : n \in 0..MaxElems}

ListInputs ==
    UNION {{<<StructValue(k :> ListValue(s))>>,
            <<StructValue(k :> ListValue(s)), StructValue(b :> StringValue(<<"2">>))>>} :
           s \in ElementSeqs}

\* Three records that use the same field name for values of different kinds.
Reused(j) ==
    LET s == StringValue(<<Digits[j + 1]>>)
    IN  {StructValue(NoFields),
         StructValue(a :> s),
         StructValue(a :> NullValue),
         StructValue(a :> NumberValue((0 - 12000000) - j)),
         StructValue(a :> StructValue(NoFields)),
         StructValue(a :> StructValue(a :> s)),
         StructValue(a :> ListValue(<<s>>)),
         StructValue(a :> ListValue(<<StructValue(a :> s)>>))}

ReuseInputs ==
    {l \in [1..3 -> UNION {Reused(j) : j \in 1..3}] : \A j \in 1..3 : l[j] \in Reused(j)}

\* Lists whose values are not all records.
TopValue(j) ==
    LET s == StringValue(<<Digits[j + 1]>>)
    IN  {s, NullValue, UnsetValue, ListValue(<<>>), ListValue(<<s>>),
         StructValue(a :> s)}

TopInputs ==
    UNION {{l \in [1..n -> UNION {TopValue(j) : j \in 1..n}] :
              \A j \in 1..n : l[j] \in TopValue(j)} : n \in 1..2}

\* One record whose field a holds a record whose field b holds a list.
DeepElement(j) ==
    {StringValue(<<"1", Digits[j + 1]>>), StructValue(NoFields),
     StructValue(a :> StringValue(<<"1", Digits[j + 1]>>))}

DeepInputs ==
    UNION {{<<StructValue(a :> StructValue(b :> ListValue(s)))>> :
              s \in {t \in [1..n -> UNION {DeepElement(j) : j \in 1..n}] :
                       \A j \in 1..n : t[j] \in DeepElement(j)}} : n \in 1..2}

Inputs == RecordInputs \cup ListInputs \cup ReuseInputs \cup TopInputs \cup DeepInputs

----------------------------------------------------------------------------
(* ListWriter.Write, step by step                                          *)

VARIABLES
    list,                \* the ListValue's Values
    alphabetizeHeaders,  \* the ListWriter's option
    pc,                  \* where Write is
    rowCount,
    columns,
    pos,                 \* the index of the next of list.Values to add
    i,                   \* the index of the next data row
    written,             \* the rows the Writer accepted, in order
    calls,               \* the number of calls of the Writer's Write
    ret                  \* what Write returned ("" while it runs)

vars == <<list, alphabetizeHeaders, pc, rowCount, columns, pos, i, written, calls, ret>>

Init ==
    /\ list \in Inputs
    /\ alphabetizeHeaders \in BOOLEAN
    /\ pc = "start"
    /\ rowCount = 0
    /\ columns = newColumns(0)
    /\ pos = 1
    /\ i = 0
    /\ written = <<>>
    /\ calls = 0
    /\ ret = ""

\* fmt.Errorf("failed to add value: %w", err), err wrapping ErrUnsupportedValueType
AddValueError == "failed to add value: ErrUnsupportedValueType"

\* fmt.Errorf("failed to write csv header: %w", err)
HeaderError == "failed to write csv header"

\* fmt.Errorf("failed to write csv data: %w", err), for the data row of index r:
\* the format has no verb for r.
DataError(r) == "failed to write csv data"

\* rowCount := rowBufferForList(list); columns := newColumns(withBuf(rowCount))
Begin ==
    /\ pc = "start"
    /\ rowCount' = rowBufferForList(list)
    /\ columns' = newColumns(rowBufferForList(list))
    /\ pc' = "add"
    /\ UNCHANGED <<list, alphabetizeHeaders, pos, i, written, calls, ret>>

\* The loop over list.Values without the return on an unsupported value.
AddValue_IgnoreError ==
    /\ pc = "add"
    /\ pos <= Len(list)
    /\ \E c \in addValue(columns, <<>>, list[pos]) :
          IF c.err = "panic"
            THEN /\ columns' = c
                 /\ pc' = "done"
                 /\ ret' = "panic"
                 /\ UNCHANGED pos
            ELSE /\ columns' = [c EXCEPT !.err = "nil"]
                 /\ pos' = pos + 1
                 /\ UNCHANGED <<pc, ret>>
    /\ UNCHANGED <<list, alphabetizeHeaders, rowCount, i, written, calls>>

\* One turn of the loop over list.Values: columns.addValue("", value).
AddValue ==
    /\ pc = "add"
    /\ pos <= Len(list)
    /\ \E c \in addValue(columns, <<>>, list[pos]) :
          /\ columns' = c
          /\ IF c.err = "nil"
               THEN /\ pos' = pos + 1
                    /\ UNCHANGED <<pc, ret>>
               ELSE /\ pc' = "done"
                    /\ ret' = IF c.err = "panic" THEN "panic"
                              ELSE AddValueError
                    /\ UNCHANGED pos
    /\ UNCHANGED <<list, alphabetizeHeaders, rowCount, i, written, calls>>

\* columns.trimParents()
TrimParents ==
    /\ pc = "add"
    /\ pos > Len(list)
    /\ columns' = trimParents(columns)
    /\ pc' = IF alphabetizeHeaders THEN "reorder" ELSE "header"
    /\ UNCHANGED <<list, alphabetizeHeaders, rowCount, pos, i, written, calls, ret>>

\* columns.reorderAlphabetically()
Reorder ==
    /\ pc = "reorder"
    /\ columns' = reorderAlphabetically(columns)
    /\ IF reorderAlphabetically(columns).err = "nil"
         THEN pc' = "header" /\ UNCHANGED ret
         ELSE pc' = "done" /\ ret' = "panic"
    /\ UNCHANGED <<list, alphabetizeHeaders, rowCount, pos, i, written, calls>>

\* The Writer's Write(record): it accepts the record or fails.
Sink(record, accepted) ==
    /\ calls' = calls + 1
    /\ written' = IF accepted THEN Append(written, record) ELSE written

\* data[0] is built and handed to the Writer.
WriteHeader ==
    /\ pc = "header"
    /\ IF HeaderRows(columns.m) = {}
         THEN /\ pc' = "done"
              /\ ret' = "panic"
              /\ UNCHANGED <<written, calls>>
         ELSE \E record \in HeaderRows(columns.m), accepted \in BOOLEAN :
                /\ Sink(record, accepted)
                /\ IF accepted
                     THEN pc' = "rows" /\ UNCHANGED ret
                     ELSE pc' = "done" /\ ret' = HeaderError
    /\ UNCHANGED <<list, alphabetizeHeaders, rowCount, columns, pos, i>>

\* The row loop without the return on a failed Write.
WriteRow_ContinueOnFailure ==
    /\ pc = "rows"
    /\ i < rowCount
    /\ \E record \in DataRows(columns.m, i), accepted \in BOOLEAN :
          /\ Sink(record, accepted)
          /\ i' = i + 1
          /\ UNCHANGED <<pc, ret>>
    /\ UNCHANGED <<list, alphabetizeHeaders, rowCount, columns, pos>>

\* One turn of "for i := 0; i < rowCount; i++".
WriteRow ==
    /\ pc = "rows"
    /\ i < rowCount
    /\ \E record \in DataRows(columns.m, i), accepted \in BOOLEAN :
          /\ Sink(record, accepted)
          /\ IF accepted
               THEN i' = i + 1 /\ UNCHANGED <<pc, ret>>
               ELSE pc' = "done" /\ ret' = DataError(i) /\ UNCHANGED i
    /\ UNCHANGED <<list, alphabetizeHeaders, rowCount, columns, pos>>

\* Write with a row loop that stops one row early.
Return_OneRowShort ==
    /\ pc = "rows"
    /\ i >= rowCount - 1
    /\ pc' = "done"
    /\ ret' = "nil"
    /\ UNCHANGED <<list, alphabetizeHeaders, rowCount, columns, pos, i, written, calls>>

\* return nil
Return ==
    /\ pc = "rows"
    /\ i >= rowCount
    /\ pc' = "done"
    /\ ret' = "nil"
    /\ UNCHANGED <<list, alphabetizeHeaders, rowCount, columns, pos, i, written, calls>>

Next == Begin \/ AddValue \/ TrimParents \/ Reorder \/ WriteHeader \/ WriteRow \/ Return

Spec == Init /\ [][Next]_vars

----------------------------------------------------------------------------
(* What the input holds, read off the input alone                          *)

RECURSIVE DotJoin(_)
\* k1.k2. ... .kn for the path <<k1, ..., kn>>
DotJoin(path) ==
    IF Len(path) = 0 THEN <<>>
    ELSE IF Len(path) = 1 THEN path[1]
    ELSE path[1] \o <<".">> \o DotJoin(Tail(path))

RECURSIVE NoSequence(_)
\* v is a scalar, or a record whose fields are such values.
NoSequence(v) ==
    \/ IsScalar(v)
    \/ /\ v.kind = "StructValue"
       /\ \A n \in DOMAIN v.fields : NoSequence(v.fields[n])

RECURSIVE Recognized(_)
\* Every value of the tree is Null, Number, String, Bool, Record or Sequence.
Recognized(v) ==
    \/ IsScalar(v)
    \/ /\ v.kind = "StructValue"
       /\ \A n \in DOMAIN v.fields : Recognized(v.fields[n])
    \/ /\ v.kind = "ListValue"
       /\ \A j \in 1..Len(v.values) : Recognized(v.values[j])

RECURSIVE Supported(_)
\* Recognized, and no Sequence is an element of a Sequence.
Supported(v) ==
    \/ IsScalar(v)
    \/ /\ v.kind = "StructValue"
       /\ \A n \in DOMAIN v.fields : Supported(v.fields[n])
    \/ /\ v.kind = "ListValue"
       /\ \A j \in 1..Len(v.values) :
             v.values[j].kind # "ListValue" /\ Supported(v.values[j])

RECURSIVE CellsOf(_, _)
\* The scalars a record holds under chains of record fields, each with the
\* path of field names that leads to it (path is the path of the record).
CellsOf(fields, path) ==
    UNION {LET v == fields[n]
           IN  IF IsScalar(v)
                 THEN {[header |-> DotJoin(Append(path, n)), text |-> Stringify(v)]}
               ELSE IF v.kind = "StructValue" THEN CellsOf(v.fields, Append(path, n))
               ELSE {} :
           n \in DOMAIN fields}

\* The text a record has at a dotted path, "" when it has none.
ValueAt(record, header) ==
    LET at == {c \in CellsOf(record.fields, <<>>) : c.header = header}
    IN  IF at = {} THEN <<>> ELSE (CHOOSE c \in at : TRUE).text

RecordsOnly(l) == \A j \in 1..Len(l) : l[j].kind = "StructValue"

IsRecord(v) == v.kind = "StructValue"

----------------------------------------------------------------------------
(* The claims                                                              *)

\* C1: for a list of n records without any sequence, a Write that returns nil
\* has emitted n data rows, and data row r holds under every header the value
\* the r-th record has at that dotted path ("" when it has none).
C1_RowHoldsItsRecord ==
    (ret = "nil" /\ RecordsOnly(list) /\ \A j \in 1..Len(list) : NoSequence(list[j]))
    => /\ Len(written) = Len(list) + 1
       /\ \A r \in 1..Len(list) : \A c \in 1..Len(written[1]) :
             written[r + 1][c] = ValueAt(list[r], written[1][c])

\* C2: when AddValue adds a record whose field K holds a sequence with the
\* record elements e1..eN, there is a row from which on the cells of ej stand
\* in the j-th row, under K.<path>.
C2_ElementsInConsecutiveRows ==
    [][(pc = "add" /\ pos <= Len(list) /\ IsRecord(list[pos]) /\ Supported(list[pos]))
       => \A K \in DOMAIN list[pos].fields :
            list[pos].fields[K].kind = "ListValue" =>
              LET es == SelectSeq(list[pos].fields[K].values, IsRecord)
              IN  Len(es) > 0 =>
                    \E start \in 0..rowCount :
                      \A j \in 1..Len(es) : \A c \in CellsOf(es[j].fields, <<K>>) :
                        /\ c.header \in DOMAIN columns'.m
                        /\ start + j <= Len(columns'.m[c.header].data)
                        /\ columns'.m[c.header].data[start + j] = c.text]_vars

\* C3: after a Write that returns nil on a list of records without any
\* sequence, every scalar under the chain of fields k1, ..., kn of the r-th
\* record stands in the column with header k1.k2. ... .kn, in row r.
C3_DottedPathInRecordRow ==
    (ret = "nil" /\ RecordsOnly(list) /\ \A j \in 1..Len(list) : NoSequence(list[j]))
    => \A r \in 1..Len(list) : \A c \in CellsOf(list[r].fields, <<>>) :
          /\ c.header \in DOMAIN columns.m
          /\ columns.m[c.header].data[r] = c.text

\* C5: on a list of records of the recognized kinds, no write is out of range.
C5_NoWriteOutOfRange ==
    (RecordsOnly(list) /\ \A j \in 1..Len(list) : Recognized(list[j]))
    => ret # "panic"

RECURSIVE JoinComma(_)
JoinComma(texts) ==
    IF Len(texts) = 0 THEN <<>>
    ELSE IF Len(texts) = 1 THEN texts[1]
    ELSE texts[1] \o <<",">> \o JoinComma(Tail(texts))

\* '[' + the texts of the scalar elements, in order, joined by commas + ']'
BracketOf(values) ==
    LET scalars == SelectSeq(values, IsScalar)
    IN  <<"[">> \o JoinComma([j \in 1..Len(scalars) |-> Stringify(scalars[j])]) \o <<"]">>

\* The names of the fields of the records of the list.
FieldNames(l) == UNION {DOMAIN l[j].fields : j \in {n \in 1..Len(l) : IsRecord(l[n])}}

\* The records of the list that have the field K.
Having(l, K) == {j \in 1..Len(l) : IsRecord(l[j]) /\ K \in DOMAIN l[j].fields}

SupportedRecords(l) == RecordsOnly(l) /\ \A j \in 1..Len(l) : Supported(l[j])

\* C7: after a Write that returns nil, every non-empty cell of the column of
\* a field name K is the text of a scalar some record has at K or the bracket
\* string of a sequence some record has at K.
C7_BracketString ==
    (ret = "nil" /\ SupportedRecords(list))
    => \A K \in FieldNames(list) \cap DOMAIN columns.m :
         \A r \in 1..Len(columns.m[K].data) :
            LET cell == columns.m[K].data[r]
            IN  cell # <<>> =>
                  \E j \in Having(list, K) :
                     LET v == list[j].fields[K]
                     IN  \/ IsScalar(v) /\ cell = Stringify(v)
                         \/ v.kind = "ListValue" /\ cell = BracketOf(v.values)

\* C8: after a Write that returns nil, the column of a field name K was
\* written if and only if some record holds at K a scalar or a sequence with
\* at least one scalar element.
C8_BracketWrittenIffScalarElement ==
    (ret = "nil" /\ SupportedRecords(list))
    => \A K \in FieldNames(list) :
         K \in DOMAIN columns.m
         <=> \E j \in Having(list, K) :
                LET v == list[j].fields[K]
                IN  \/ IsScalar(v)
                    \/ /\ v.kind = "ListValue"
                       /\ \E n \in 1..Len(v.values) : IsScalar(v.values[n])

RECURSIVE SumOver(_, _)
\* The sum of n[e] over the elements e of the finite set S.
SumOver(S, n) ==
    IF S = {} THEN 0
    ELSE LET e == CHOOSE m \in S : TRUE IN n[e] + SumOver(S \ {e}, n)

RECURSIVE SubValues(_)
\* The value and all the values under it.
SubValues(v) ==
    {v} \cup
    (IF v.kind = "StructValue" THEN UNION {SubValues(v.fields[n]) : n \in DOMAIN v.fields}
     ELSE IF v.kind = "ListValue" THEN UNION {SubValues(v.values[j]) : j \in 1..Len(v.values)}
     ELSE {})

SequenceFields(fields) == {n \in DOMAIN fields : fields[n].kind = "ListValue"}

RecordElements(values) == {j \in 1..Len(values) : values[j].kind = "StructValue"}

RECURSIVE RowLeaves(_, _)
\* The records at or under a record, through sequence fields and their
\* record elements only, that have no record element in any sequence field;
\* each is named by the path to it.
RowLeaves(fields, path) ==
    LET below ==
          UNION {UNION {RowLeaves(fields[n].values[j].fields, path \o <<n, j>>) :
                        j \in RecordElements(fields[n].values)} :
                 n \in SequenceFields(fields)}
    IN  IF below = {} THEN {path} ELSE below

\* C4: rowBufferForStruct is max(1, the sum of rowBufferForList over the
\* sequence fields) and rowBufferForList is the sum of rowBufferForStruct over
\* the record elements, for the list and every value under it; a record
\* without sequence fields gives 1, a sequence whose records have none gives
\* the number of its records, and the row count of the table is the number of
\* records that have no record element below them.
C4_RowEstimate ==
    (pc = "add" /\ pos = 1)
    => /\ rowCount = rowBufferForList(list)
       /\ columns.buf = rowCount
       /\ rowCount = Cardinality(UNION {RowLeaves(list[j].fields, <<j>>) :
                                        j \in RecordElements(list)})
       /\ \A v \in SubValues(ListValue(list)) :
            /\ v.kind = "StructValue" =>
                 /\ rowBufferForStruct(v.fields)
                      = Max(1, SumOver(SequenceFields(v.fields),
                                  [n \in SequenceFields(v.fields) |->
                                      rowBufferForList(v.fields[n].values)]))
                 /\ SequenceFields(v.fields) = {} => rowBufferForStruct(v.fields) = 1
            /\ v.kind = "ListValue" =>
                 /\ rowBufferForList(v.values)
                      = SumOver(RecordElements(v.values),
                           [j \in RecordElements(v.values) |->
                               rowBufferForStruct(v.values[j].fields)])
                 /\ (\A j \in RecordElements(v.values) :
                        SequenceFields(v.values[j].fields) = {})
                    => rowBufferForList(v.values) = Cardinality(RecordElements(v.values))

\* C4's case: one record whose sequence fields hold two records, three rows.
C4_Witness ==
    /\ pc = "add" /\ pos = 1
    /\ Len(list) = 2
    /\ rowCount = 3
    /\ \E j \in 1..2 : \E n \in SequenceFields(list[j].fields) :
          Cardinality(RecordElements(list[j].fields[n].values)) = 2

\* C6: no sink call before the whole list is flattened; a Write that returns
\* nil has called the sink 1 + rowBufferForList(list) times, first with the
\* header, then with the data rows 0, 1, ... in order, every row with one
\* field for each column left; an empty list gives the empty header alone.
C6_SinkCalls ==
    /\ calls > 0 => pos > Len(list) /\ columns.err = "nil"
    /\ ret = "nil" =>
         LET n == Cardinality(DOMAIN columns.m)
         IN  /\ calls = 1 + rowBufferForList(list)
             /\ Len(written) = calls
             /\ \A r \in 1..Len(written) : Len(written[r]) = n
             /\ \A h \in DOMAIN columns.m :
                  /\ written[1][columns.m[h].order + 1] = h
                  /\ \A r \in 0..(rowBufferForList(list) - 1) :
                       written[r + 2][columns.m[h].order + 1] = columns.m[h].data[r + 1]
             /\ list = <<>> => written = << <<>> >>

\* C6's case: a Write that returned nil after a header of two columns and
\* two data rows.
C6_Witness ==
    /\ ret = "nil"
    /\ calls = 3
    /\ Len(written[1]) = 2
    /\ written[2] # written[3]

RECURSIVE HeadersOfValue(_, _)
\* The headers of the values written directly under a value reached by the
\* path of field names: a scalar's own, a sequence's own when it has a scalar
\* element, and those of the fields of records and of record elements.
HeadersOfValue(v, path) ==
    IF IsScalar(v) THEN {DotJoin(path)}
    ELSE IF v.kind = "StructValue"
      THEN UNION {HeadersOfValue(v.fields[n], Append(path, n)) : n \in DOMAIN v.fields}
    ELSE IF v.kind = "ListValue"
      THEN (IF \E j \in 1..Len(v.values) : IsScalar(v.values[j])
              THEN {DotJoin(path)} ELSE {})
           \cup UNION {HeadersOfValue(v.values[j], path) : j \in RecordElements(v.values)}
    ELSE {}

\* trimParents has run.
Trimmed == pc \in {"reorder", "header", "rows"} \/ (pc = "done" /\ columns.err = "nil")

\* A field that holds an empty record, a record, an empty sequence or a
\* sequence of records only.
Placeholder(v) ==
    \/ v.kind = "StructValue"
    \/ v.kind = "ListValue" /\ \A j \in 1..Len(v.values) : v.values[j].kind = "StructValue"

\* C9: once trimParents has run, every column left has the header of a value
\* the input writes directly, so a field name K that holds only records or
\* sequences without scalar elements is no header, and the data of every
\* column left is as long as the row count.
C9_NoPlaceholderLeft ==
    Trimmed
    => /\ \A h \in DOMAIN columns.m :
            /\ h \in UNION {HeadersOfValue(list[j], <<>>) : j \in 1..Len(list)}
            /\ Len(columns.m[h].data) = rowCount
            /\ columns.buf = rowCount
       /\ \A K \in FieldNames(list) :
            (\A j \in Having(list, K) : Placeholder(list[j].fields[K]))
            => K \notin DOMAIN columns.m

\* C9's case: the field a holds a record in one record and an empty sequence
\* in another, and the columns left are a.<field> ones only.
C9_Witness ==
    /\ Trimmed
    /\ \E j \in Having(list, a) :
          /\ list[j].fields[a].kind = "StructValue"
          /\ DOMAIN list[j].fields[a].fields # {}
    /\ \E j \in Having(list, a) : list[j].fields[a] = ListValue(<<>>)
    /\ a \notin DOMAIN columns.m
    /\ DOMAIN columns.m # {}

\* C10: with alphabetizeHeaders, a Write that returns nil has emitted a
\* header in strictly ascending byte order, and under each header the cells
\* of that header's column, row by row.
C10_AlphabeticalHeader ==
    (ret = "nil" /\ alphabetizeHeaders)
    => /\ \A c, d \in 1..Len(written[1]) :
            c < d => StrLess(written[1][c], written[1][d])
       /\ \A c \in 1..Len(written[1]) :
            /\ written[1][c] \in DOMAIN columns.m
            /\ \A r \in 1..rowCount :
                 written[r + 1][c] = columns.m[written[1][c]].data[r]

\* C10's case: three columns, one of them nested, and two data rows.
C10_Witness ==
    /\ ret = "nil" /\ alphabetizeHeaders
    /\ Len(written[1]) = 3
    /\ \E c \in 1..3 : Len(written[1][c]) > 1
    /\ rowCount = 2
    /\ written[2] # written[3]

\* C11: when the list holds a value of no recognized kind, the sink is never
\* called, and a Write that ends without an out-of-range write (which stops
\* the flattening before the value is reached) has returned the error that
\* wraps ErrUnsupportedValueType; Write returns that error only with no call
\* of the sink.
C11_UnsupportedKindWritesNothing ==
    /\ ~Recognized(ListValue(list)) =>
          /\ calls = 0
          /\ written = <<>>
          /\ (pc = "done" /\ ret # "panic") => ret = AddValueError
    /\ (columns.err = "ErrUnsupportedValueType" \/ ret = AddValueError) =>
          /\ pc = "done"
          /\ ret = AddValueError
          /\ calls = 0
          /\ written = <<>>

\* C11's case: the value of no recognized kind is reached after two columns
\* were written into the ColumnSpace.
C11_Witness ==
    /\ ~Recognized(ListValue(list))
    /\ pc = "done"
    /\ ret = AddValueError
    /\ Cardinality({h \in DOMAIN columns.m : Len(columns.m[h].data) > 0}) >= 2
    /\ calls = 0

\* The sink has failed: it was called more often than it accepted a row.
SinkFailed == calls > Len(written)

\* C12: the sink fails at most once and Write is then over with the error of
\* the failing row; what the sink accepted before is the header and the data
\* rows of lower index, in order, so a failure on the header leaves nothing
\* and a failure on data row r leaves the header and the rows 0..r-1.
C12_StopsAtSinkFailure ==
    /\ calls <= Len(written) + 1
    /\ SinkFailed =>
          /\ pc = "done"
          /\ ret \in {HeaderError, DataError(i)}
          /\ ret # "nil"
          /\ ret = HeaderError <=> written = <<>>
          /\ Len(written) > 0 =>
                /\ Len(written) = i + 1
                /\ i < rowCount
                /\ written[1] \in HeaderRows(columns.m)
                /\ \A r \in 0..(i - 1) : written[r + 2] \in DataRows(columns.m, r)
    /\ ret \in {HeaderError, DataError(i)} => SinkFailed

\* C12's case: the sink failed on data row 1, after the header and row 0.
C12_Witness ==
    /\ SinkFailed
    /\ pc = "done"
    /\ rowCount >= 3
    /\ i = 1
    /\ Len(written) = 2
    /\ Len(written[1]) >= 1

\* C13: the error of a sink failure tells the header from a data row, and the
\* error for the data row that failed is the error of no other data row.
C13_ErrorNamesTheRow ==
    SinkFailed =>
       /\ Len(written) = 0 => \A r \in 0..(rowCount - 1) : ret # DataError(r)
       /\ Len(written) > 0 =>
             /\ ret # HeaderError
             /\ \A r \in 0..(rowCount - 1) : r # i => ret # DataError(r)

\* The columns are rendered: trimParents and the optional resort are done.
AtRender == pc \in {"header", "rows"} \/ (pc = "done" /\ calls > 0)

\* C15: at render time the orders of the columns are pairwise distinct and
\* are exactly 0..len(columns)-1, every column left was written, and every
\* slot of an emitted row is the cell of exactly one column.
C15_OrdersArePermutation ==
    AtRender =>
       LET hs == DOMAIN columns.m
           n == Cardinality(hs)
       IN  /\ \A g, h \in hs : g # h => columns.m[g].order # columns.m[h].order
           /\ {columns.m[h].order : h \in hs} = 0..(n - 1)
           /\ columns.currentColNum = n
           /\ \A h \in hs : Len(columns.m[h].data) > 0
           /\ \A r \in 1..Len(written) :
                /\ Len(written[r]) = n
                /\ \A c \in 1..n :
                     Cardinality({h \in hs : columns.m[h].order = c - 1}) = 1

\* C15's case: a placeholder was registered before the columns left were
\* written, without the resort, and two columns are rendered.
C15_Witness ==
    /\ AtRender
    /\ ~alphabetizeHeaders
    /\ Len(written) >= 2
    /\ Cardinality(DOMAIN columns.m) = 2
    /\ Len(list) >= 1
    /\ IsRecord(list[1])
    /\ \E K \in DOMAIN list[1].fields :
          /\ Placeholder(list[1].fields[K])
          /\ K \notin DOMAIN columns.m

RECURSIVE AddAll(_, _, _)
\* What the loop over list.Values can leave from its n-th turn on, for every
\* order the fields of each record can be iterated in; the loop stops at the
\* first error.
AddAll(C, l, n) ==
    IF n > Len(l) THEN C
    ELSE AddAll(UNION {IF c.err = "nil" THEN addValue(c, <<>>, l[n]) ELSE {c} : c \in C},
                l, n + 1)

\* The table of a finished flattening: how it ended and, when it ended well,
\* the cells under each header left by trimParents, with the column's place
\* in the rows when the headers are sorted.
TableOf(cols, sorted) ==
    IF cols.err # "nil" THEN [err |-> cols.err, cells |-> {}]
    ELSE LET t == IF sorted THEN reorderAlphabetically(trimParents(cols))
                  ELSE trimParents(cols)
         IN  [err |-> t.err,
              cells |-> {[header |-> h, data |-> t.m[h].data,
                          order |-> IF sorted THEN t.m[h].order ELSE 0] :
                         h \in DOMAIN t.m}]

\* The tables Write can produce for the list.
Tables(l, sorted) ==
    {TableOf(c, sorted) : c \in AddAll({newColumns(rowBufferForList(l))}, l, 1)}

\* C14: when Write is over, every other invocation on the same list, with
\* the fields of the records iterated in any order, ends the same way and
\* with the same cells under the same headers (at the same places when the
\* headers are sorted).
C14_SameTableInAnyFieldOrder ==
    pc = "done" =>
       \A t \in Tables(list, alphabetizeHeaders) :
          /\ t.err = columns.err
          /\ t.err = "nil" => t = TableOf(columns, alphabetizeHeaders)

\* C16: when every value of the list is Null, Number, String, Bool, Record or
\* Sequence, the flattening never ends with ErrUnsupportedValueType.
C16_RecognizedKindsAreSupported ==
    Recognized(ListValue(list))
    => /\ columns.err # "ErrUnsupportedValueType"
       /\ ret # AddValueError

RECURSIVE FieldScalars(_, _)
\* The scalars that are values of record fields at or under a value reached
\* by the path of field names, through records and the record elements of
\* sequences, each with its dotted path.
FieldScalars(v, path) ==
    IF v.kind = "StructValue"
      THEN UNION {IF IsScalar(v.fields[n])
                    THEN {[header |-> DotJoin(Append(path, n)),
                           text |-> Stringify(v.fields[n])]}
                    ELSE FieldScalars(v.fields[n], Append(path, n)) :
                  n \in DOMAIN v.fields}
    ELSE IF v.kind = "ListValue"
      THEN UNION {FieldScalars(v.values[j], path) : j \in RecordElements(v.values)}
    ELSE {}

\* C17: after a Write that returns nil on a list of records, every scalar
\* that is the value of a record field, at any depth under records and
\* sequences of records, is a cell of the column of its dotted path.
C17_NoValueLost ==
    (ret = "nil" /\ RecordsOnly(list))
    => \A c \in FieldScalars(ListValue(list), <<>>) :
          /\ c.header \in DOMAIN columns.m
          /\ \E r \in 1..Len(columns.m[c.header].data) :
                columns.m[c.header].data[r] = c.text

====
